---- MODULE Spec2Model ----
(***************************************************************************)
(* Verification model of rasteric/commands.                                *)
(*                                                                         *)
(* Modelled are:                                                           *)
(*   - the cancellable OpManager (package commands, with Cancelation       *)
(*     tokens, a WaitGroup and an RWMutex);                                *)
(*   - the stack-discipline UndoManager (package undo, undo.go);           *)
(*   - the OpManager that keeps operations in opStorage under a            *)
(*     StorageLimit;                                                       *)
(*   - the constructors of all managers.                                   *)
(* Every goroutine statement that touches shared memory is one step.       *)
(***************************************************************************)
EXTENDS Integers, Sequences, FiniteSets, TLC

\* ---------------------------------------------------------------- bounds
NumTasks == 2       \* calls of Execute/Undo/Redo/ExecuteSync in one run
NumOps == 2         \* distinct Operation values handed to the manager
MaxCancels == 2     \* Cancel() calls made on one returned handle
NumThreads == 2     \* threads calling the UndoManager's Undo / Redo
MaxAdds == 3        \* UndoManager.Add calls in one run
MaxLimit == 2       \* largest Config.StorageLimit a manager is built with
MaxConfigs == 3     \* Config arguments passed to one constructor call
MaxExec == 5        \* Execute calls on the opStorage manager in one run
NumIDs == 4         \* distinct operation IDs handed to the opStorage manager
MaxLedger == 3      \* operations in undoable and redoable in a serial run
HistLen == 3        \* successful ledger updates remembered
MaxCmdID == 3       \* largest command ID passed to RegisterCmdIDs
MaxRegister == 2    \* most arguments of one RegisterCmdIDs call
MaxIDCalls == 5     \* NewCmdID and RegisterCmdIDs calls in a run
MaxCancelAlls == 2  \* CancelAll calls on the UndoManager

Tasks == 1..NumTasks
Ops == 1..NumOps
Threads == 1..NumThreads

Nil == "nil"
AsyncKinds == {"Execute", "Undo", "Redo"}

\* ------------------------------------------------------------ Cancelation
\* A Cancelation value: ctx and f are identified by the task whose
\* context.WithCancel call made them; 0 stands for the nil field.
ZeroCancelation == [id |-> 0, ctx |-> [kind |-> "nil", t |-> 0], f |-> 0, mgr |-> 0]

NoPanic == [why |-> "none", t |-> 0, completed |-> FALSE]

\* op.Cmd(): the command an operation belongs to; NoCmd is the nil Command.
CmdOf(op) == [cmd |-> op]

NoCmd == [cmd |-> 0]

\* No peek has been made.
NoPeek == [fn |-> "none", bool |-> FALSE, cmd |-> NoCmd]

VARIABLES
  undoable,        \* mgr.undoable
  redoable,        \* mgr.redoable
  cancelations,    \* mgr.cancelations
  wg,              \* mgr.wg counter
  readers,         \* number of holders of mgr.mutex in read mode
  pc,              \* position of each call / goroutine
  kind,            \* which entry point the call is
  opOf,            \* the Operation passed to the call
  snap,            \* withCancel: the slice value read at len(mgr.cancelations)
  cancel,          \* the goroutine's captured variable `cancel`
  out,             \* <<result, err>> returned by the action
  obsCtx,          \* the context the action was run with
  cb,              \* the invocations of final, as <<result, err>> pairs
  callerPc,        \* position of the caller of Execute/Undo/Redo
  handle,          \* the Cancelation the call returned
  cancelCalls,     \* number of Cancel() calls made on the returned handle
  ctxCancelled,    \* derived contexts whose cancel function has been called
  parentCancelled, \* the caller's context has been cancelled
  ctl,             \* the thread running CancelAll / WaitAll / Shutdown
  panicked,        \* an unrecovered panic ended the process
  config,          \* mgr.config
  peek,            \* what the last CanUndo / CanRedo / UndoCmd / RedoCmd returned
  hist             \* the last successful ledger updates, newest last

omvars == <<undoable, redoable, cancelations, wg, readers, pc, kind, opOf, snap,
            cancel, out, obsCtx, cb, callerPc, handle, cancelCalls,
            ctxCancelled, parentCancelled, ctl, panicked, config, peek, hist>>

\* The UndoManager (undo.go).
VARIABLES
  undoStack,       \* mgr.undoStack
  redoStack,       \* mgr.redoStack
  adds,            \* number of Add calls made
  umPc,            \* position of each thread inside Undo / Redo
  umOp,            \* the op the thread popped
  umRet,           \* the error the thread's last Undo / Redo returned
  umBefore,        \* <<undoStack, redoStack>> when the thread's call began
  umAlone,         \* no other call has touched the stacks during the call
  umCall,          \* which of Undo / Redo the thread called last
  umConfig,        \* mgr.config
  mainDone,        \* mgr.mainCtx is done (mgr.mainCancel has been called)
  umCtx,           \* the context each thread last obtained from WithCancel
  cancelAlls,      \* number of CancelAll calls that have returned
  popLog           \* the names popped from the undo stack, in pop order

cxvars == <<mainDone, umCtx, cancelAlls>>

umvars == <<undoStack, redoStack, adds, umPc, umOp, umRet, umBefore, umAlone, umCall,
            umConfig, cxvars, popLog>>

\* The OpManager that keeps its operations in opStorage (part_001, the
\* variant whose Execute(op) returns an error).
VARIABLES
  opStorage,       \* keys of mgr.opStorage
  InProgress,      \* mgr.InProgress
  Done,            \* mgr.Done
  Redoable,        \* mgr.Redoable
  stConfig,        \* mgr.config
  stLog,           \* the Execute calls made so far, as [id, err] records
  cmdIDCount,      \* mgr.cmdIDCount
  usedCmdIDs,      \* the IDs NewCmdID returned or RegisterCmdIDs accepted so far
  idLog,           \* the last NewCmdID / RegisterCmdIDs call and what it returned
  idCalls          \* how many such calls were made

stvars == <<opStorage, InProgress, Done, Redoable, stConfig, stLog,
            cmdIDCount, usedCmdIDs, idLog, idCalls>>

\* Calls of the constructors.
VARIABLES
  ctArgs,          \* the config arguments of the last constructor call
  ctRes            \* which constructor was called and what it returned

ctvars == <<ctArgs, ctRes>>

vars == <<omvars, umvars, stvars, ctvars>>

\* ------------------------------------------------------------ constructors
UnlimitedStorage == 0

\* var Defaults = Config{}
Defaults == [StorageLimit |-> UnlimitedStorage]

Configs == [StorageLimit : 0..MaxLimit]

\* The config argument lists a caller may pass.
ConfigArgs == UNION {[1..n -> Configs] : n \in 0..MaxConfigs}

\* What a constructor hands back: (manager, error), or a panic.
NoManager == [nil |-> TRUE, config |-> Defaults]

Manager(cfg) == [nil |-> FALSE, config |-> cfg]

Built(cfg) == [mgr |-> Manager(cfg), err |-> Nil, panic |-> "none"]

Refused(e) == [mgr |-> NoManager, err |-> e, panic |-> "none"]

Panics(why) == [mgr |-> NoManager, err |-> Nil, panic |-> why]

\* NewOpManager of the cancellable OpManager.
NewOpManager(cfgs) ==
  IF Len(cfgs) > 1 THEN Refused("ErrTooManyConfig")
  ELSE IF Len(cfgs) > 0 THEN Built(cfgs[1])
  ELSE Built(Defaults)

\* undo.New
New(cfgs) ==
  IF Len(cfgs) > 1 THEN Refused("ErrTooManyConfig")
  ELSE IF Len(cfgs) > 0 THEN Built(cfgs[1])
  ELSE Built(Defaults)

\* NewOpManager of package projects: `if len(config) == 0 { cfg =
\* config[0] } else { cfg = Defaults }`.  Indexing the empty slice panics.
Projects_NewOpManager(cfgs) ==
  IF Len(cfgs) > 1 THEN Refused("ErrToManyConfig")
  ELSE IF Len(cfgs) = 0 THEN Panics("index out of range [0] with length 0")
  ELSE Built(Defaults)

\* NewOpManager of the opStorage variant of package commands.
Store_NewOpManager(cfgs) ==
  IF Len(cfgs) > 1 THEN Refused("ErrToManyConfig")
  ELSE IF Len(cfgs) > 0 THEN Built(cfgs[1])
  ELSE Built(Defaults)

\* NewOpManager of the first OpManager (exported Undoable / Redoable).
Plain_NewOpManager(cfgs) ==
  IF Len(cfgs) > 1 THEN Refused("ErrToManyConfig")
  ELSE IF Len(cfgs) > 0 THEN Built(cfgs[1])
  ELSE Built(Defaults)

\* ------------------------------------------------------------ contexts
\* The caller's context is ParentCtx; DerivedCtx(t) is the context made by
\* the context.WithCancel(ctx) call of task t's withCancel; NilCtx is the nil
\* context.Context of a zero Cancelation.
ParentCtx == [kind |-> "parent", t |-> 0]
NilCtx == [kind |-> "nil", t |-> 0]
DerivedCtx(t) == [kind |-> "derived", t |-> t]

\* ctx.Done() is closed / ctx.Err() # nil.  A derived context is cancelled by
\* its own cancel function and by the cancellation of its parent.
IsCancelled(c) ==
  IF c.kind = "parent" THEN parentCancelled
  ELSE IF c.kind = "derived" THEN parentCancelled \/ c.t \in ctxCancelled
  ELSE FALSE

\* What an action can return when run with context c: a result, its own
\* failure, or (only when c is cancelled) the context's error.
Outcomes(c) ==
  {<<"result", Nil>>, <<Nil, "failed">>}
    \cup (IF IsCancelled(c) THEN {<<Nil, "canceled">>} ELSE {})

\* ------------------------------------------------------------ the ledger
RemoveAt(s, i) == SubSeq(s, 1, i - 1) \o SubSeq(s, i + 1, Len(s))

\* Index of the first occurrence of op in s, 0 when there is none.
IndexOf(s, op) ==
  IF \E i \in 1..Len(s) : s[i] = op
  THEN CHOOSE i \in 1..Len(s) : s[i] = op /\ \A j \in 1..(i - 1) : s[j] # op
  ELSE 0

RemoveFirst(s, op) == IF IndexOf(s, op) = 0 THEN s ELSE RemoveAt(s, IndexOf(s, op))

\* The three ledger updates, as <<undoable', redoable'>>.
hasBeenDone(u, r, op) == <<Append(u, op), r>>

hasBeenUndone(u, r, op) == <<RemoveFirst(u, op), Append(r, op)>>

hasBeenRedone(u, r, op) == <<Append(u, op), RemoveFirst(r, op)>>

\* LedgerAfter with the `if err == nil` test dropped.
LedgerAfter_ignoringErr(k, err, u, r, op) ==
  IF k \in {"Execute", "ExecuteSync"} THEN hasBeenDone(u, r, op)
  ELSE IF k = "Undo" THEN hasBeenUndone(u, r, op)
  ELSE hasBeenRedone(u, r, op)

\* The body of the goroutine between the action's return and final: the
\* ledger is updated only when the action returned no error.
LedgerAfter(k, err, u, r, op) ==
  IF err # Nil THEN <<u, r>>
  ELSE IF k \in {"Execute", "ExecuteSync"} THEN hasBeenDone(u, r, op)
  ELSE IF k = "Undo" THEN hasBeenUndone(u, r, op)
  ELSE hasBeenRedone(u, r, op)

\* The successful ledger updates remembered, each with the lists it left.
Recent(h) == IF Len(h) > HistLen THEN Tail(h) ELSE h

HistAfter(h, k, err, op, u, r) ==
  IF err # Nil THEN h
  ELSE Recent(Append(h, [k |-> k, op |-> op, u |-> u, r |-> r]))

\* FinalCall with the callback skipped when the action failed.
FinalCall_onlyOnSuccess(calls, o) == IF o[2] = Nil THEN Append(calls, o) ELSE calls

\* final(result, err): the completion callback receives what the action returned.
FinalCall(calls, o) == Append(calls, o)

\* ------------------------------------------------------------ the registry
\* The Cancelation built by withCancel for task t after reading the slice s.
NewCancelation(s, t) == [id |-> Len(s) + 1, ctx |-> DerivedCtx(t), f |-> t, mgr |-> 0]

\* removeCancelation's loop.  The range is over the slice as it was at loop
\* entry (arr, n elements, one shared backing array) while each match shrinks
\* mgr.cancelations (its first len elements); an index beyond the shrunk
\* slice is a run-time panic.
RECURSIVE removeLoop(_, _, _, _)
removeLoop(i, arr, len, id) ==
  IF i > Len(arr) THEN [list |-> SubSeq(arr, 1, len), panic |-> FALSE]
  ELSE IF arr[i].id # id THEN removeLoop(i + 1, arr, len, id)
  ELSE IF i > len THEN [list |-> SubSeq(arr, 1, len), panic |-> TRUE]
  ELSE removeLoop(i + 1, [arr EXCEPT ![i] = arr[len]], len - 1, id)

removeCancelation(list, c) == removeLoop(1, list, Len(list), c.id)

\* ------------------------------------------------------------ UndoManager
\* An op: on the undo stack fn is the undo function and redoFn the redo
\* function; on the redo stack fn is the redo function and redoFn is nil.
NoOp == [name |-> 0, fn |-> Nil, redoFn |-> Nil]

\* The thread holds no context from WithCancel.
NoCtx == [held |-> FALSE, done |-> FALSE, cancelled |-> FALSE, after |-> 0]

\* New: empty stacks.
InitUM ==
  /\ undoStack = << >>
  /\ redoStack = << >>
  /\ adds = 0
  /\ umPc = [c \in Threads |-> "idle"]
  /\ umOp = [c \in Threads |-> NoOp]
  /\ umRet = [c \in Threads |-> "none"]
  /\ umBefore = [c \in Threads |-> << >>]
  /\ umAlone = [c \in Threads |-> TRUE]
  /\ umCall = [c \in Threads |-> "none"]
  /\ mainDone = FALSE
  /\ umCtx = [c \in Threads |-> NoCtx]
  /\ cancelAlls = 0
  /\ popLog = << >>

\* The calls in progress other than c's have seen the stacks change.
Disturb(c) == [d \in Threads |-> IF d = c THEN umAlone[d] ELSE FALSE]

Pop(s) == SubSeq(s, 1, Len(s) - 1)

Top(s) == s[Len(s)]

\* Add(name, undoFn, redoFn): push on the undo stack, under the mutex.
\* The n-th Add is given the name n.
UM_Add ==
  /\ adds < MaxAdds
  /\ adds' = adds + 1
  /\ undoStack' = Append(undoStack, [name |-> adds + 1, fn |-> "undoFn", redoFn |-> "redoFn"])
  /\ umAlone' = [d \in Threads |-> FALSE]
  /\ UNCHANGED <<redoStack, umPc, umOp, umRet, umBefore>>
  /\ UNCHANGED <<omvars, stvars, ctvars, cxvars, popLog, umConfig, umCall>>

\* popUndo without the test for an empty stack: Undo reports success.
popUndo_noEmptyTest(c) ==
  /\ umPc[c] = "idle"
  /\ umBefore' = [umBefore EXCEPT ![c] = <<undoStack, redoStack>>]
  /\ umRet' = [umRet EXCEPT ![c] = Nil]
  /\ umAlone' = [umAlone EXCEPT ![c] = TRUE]
  /\ umCall' = [umCall EXCEPT ![c] = "Undo"]
  /\ UNCHANGED <<undoStack, redoStack, adds, umPc, umOp>>
  /\ UNCHANGED <<omvars, stvars, ctvars, cxvars, popLog, umConfig>>

\* Undo: o, ok := mgr.popUndo(); if !ok { return ErrCantUndo }.
popUndo(c) ==
  /\ umPc[c] = "idle"
  /\ umBefore' = [umBefore EXCEPT ![c] = <<undoStack, redoStack>>]
  /\ IF Len(undoStack) = 0
     THEN /\ umRet' = [umRet EXCEPT ![c] = "ErrCantUndo"]
          /\ umAlone' = [umAlone EXCEPT ![c] = TRUE]
          /\ UNCHANGED <<undoStack, umPc, umOp, popLog>>
     ELSE /\ umOp' = [umOp EXCEPT ![c] = Top(undoStack)]
          /\ undoStack' = Pop(undoStack)
          /\ popLog' = Append(popLog, Top(undoStack).name)
          /\ umPc' = [umPc EXCEPT ![c] = "undoFn"]
          /\ umRet' = [umRet EXCEPT ![c] = "none"]
          /\ umAlone' = [Disturb(c) EXCEPT ![c] = TRUE]
  /\ UNCHANGED <<redoStack, adds>>
  /\ umCall' = [umCall EXCEPT ![c] = "Undo"]
  /\ UNCHANGED <<omvars, stvars, ctvars, cxvars, umConfig>>

\* Where a failed undo function leaves the thread: `return err`.
UndoFailed(c) ==
  /\ umPc' = [umPc EXCEPT ![c] = "idle"]
  /\ umRet' = [umRet EXCEPT ![c] = "failed"]
  /\ umOp' = [umOp EXCEPT ![c] = NoOp]
  /\ UNCHANGED <<undoStack, redoStack>>

\* Undo: err := o.fn(ctx); if err != nil { return err }.
UM_UndoFn(c) ==
  /\ umPc[c] = "undoFn"
  /\ \/ UndoFailed(c)
     \/ /\ umPc' = [umPc EXCEPT ![c] = "pushRedo"]
        /\ UNCHANGED <<undoStack, redoStack, umOp, umRet>>
  /\ UNCHANGED <<adds, umBefore, umAlone>>
  /\ UNCHANGED <<omvars, stvars, ctvars, cxvars, popLog, umConfig, umCall>>

\* Undo: mgr.redoStack = append(mgr.redoStack, op{name: o.name, fn:
\* o.redoFn}) under the mutex; return nil.
UM_UndoPush(c) ==
  /\ umPc[c] = "pushRedo"
  /\ redoStack' = Append(redoStack, [name |-> umOp[c].name, fn |-> umOp[c].redoFn, redoFn |-> Nil])
  /\ umPc' = [umPc EXCEPT ![c] = "idle"]
  /\ umRet' = [umRet EXCEPT ![c] = Nil]
  /\ umOp' = [umOp EXCEPT ![c] = NoOp]
  /\ umAlone' = Disturb(c)
  /\ UNCHANGED <<undoStack, adds, umBefore>>
  /\ UNCHANGED <<omvars, stvars, ctvars, cxvars, popLog, umConfig, umCall>>

\* Redo: op, ok := mgr.popRedo(); if !ok { return ErrCantRedo }.
popRedo(c) ==
  /\ umPc[c] = "idle"
  /\ umBefore' = [umBefore EXCEPT ![c] = <<undoStack, redoStack>>]
  /\ IF Len(redoStack) = 0
     THEN /\ umRet' = [umRet EXCEPT ![c] = "ErrCantRedo"]
          /\ umAlone' = [umAlone EXCEPT ![c] = TRUE]
          /\ UNCHANGED <<redoStack, umPc, umOp>>
     ELSE /\ umOp' = [umOp EXCEPT ![c] = Top(redoStack)]
          /\ redoStack' = Pop(redoStack)
          /\ umPc' = [umPc EXCEPT ![c] = "redoFn"]
          /\ umRet' = [umRet EXCEPT ![c] = "none"]
          /\ umAlone' = [Disturb(c) EXCEPT ![c] = TRUE]
  /\ UNCHANGED <<undoStack, adds>>
  /\ umCall' = [umCall EXCEPT ![c] = "Redo"]
  /\ UNCHANGED <<omvars, stvars, ctvars, cxvars, popLog, umConfig>>

\* Redo: return op.fn(ctx).
UM_RedoFn(c) ==
  /\ umPc[c] = "redoFn"
  /\ \E err \in {Nil, "failed"} : umRet' = [umRet EXCEPT ![c] = err]
  /\ umPc' = [umPc EXCEPT ![c] = "idle"]
  /\ umOp' = [umOp EXCEPT ![c] = NoOp]
  /\ UNCHANGED <<undoStack, redoStack, adds, umBefore, umAlone>>
  /\ UNCHANGED <<omvars, stvars, ctvars, cxvars, popLog, umConfig, umCall>>

\* context.WithCancel(parent): the child is done from the start when the
\* parent is already done.
ContextWithCancel(parentDone) ==
  [held |-> TRUE, done |-> parentDone, cancelled |-> FALSE, after |-> 0]

\* WithCancel(): context.WithCancel(mgr.mainCtx).  The context remembers
\* how many CancelAll calls had returned when it was obtained.
UM_WithCancel(c) ==
  /\ umCtx' = [umCtx EXCEPT ![c] = [ContextWithCancel(mainDone) EXCEPT !.after = cancelAlls]]
  /\ UNCHANGED <<mainDone, cancelAlls>>
  /\ UNCHANGED <<undoStack, redoStack, adds, umPc, umOp, umRet, umBefore, umAlone,
                 umCall, umConfig, popLog>>
  /\ UNCHANGED <<omvars, stvars, ctvars>>

\* The cancel func WithCancel returned is called.
UM_CtxCancel(c) ==
  /\ umCtx[c].held
  /\ umCtx' = [umCtx EXCEPT ![c].done = TRUE, ![c].cancelled = TRUE]
  /\ UNCHANGED <<mainDone, cancelAlls>>
  /\ UNCHANGED <<undoStack, redoStack, adds, umPc, umOp, umRet, umBefore, umAlone,
                 umCall, umConfig, popLog>>
  /\ UNCHANGED <<omvars, stvars, ctvars>>

\* CancelAll(): mgr.mainCancel() under the read lock.  Cancelling mainCtx
\* cancels every context derived from it; mainCtx is never replaced.
UM_CancelAll ==
  /\ cancelAlls < MaxCancelAlls
  /\ cancelAlls' = cancelAlls + 1
  /\ mainDone' = TRUE
  /\ umCtx' = [c \in Threads |-> IF umCtx[c].held THEN [umCtx[c] EXCEPT !.done = TRUE]
                                                   ELSE umCtx[c]]
  /\ UNCHANGED <<undoStack, redoStack, adds, umPc, umOp, umRet, umBefore, umAlone,
                 umCall, umConfig, popLog>>
  /\ UNCHANGED <<omvars, stvars, ctvars>>

\* CanUndo: len(mgr.undoStack) > 0, under the read lock.
UM_CanUndo == Len(undoStack) > 0

\* UndoName: the name of the top entry; 0 stands for "".
UM_UndoName == IF Len(undoStack) = 0 THEN 0 ELSE Top(undoStack).name

\* CanRedo: len(mgr.redoStack) > 0, under the read lock.
UM_CanRedo == Len(redoStack) > 0

\* RedoName: the name of the top entry; 0 stands for "".
UM_RedoName == IF Len(redoStack) = 0 THEN 0 ELSE Top(redoStack).name

\* ------------------------------------------------------------ initial state
\* NewOpManager: empty lists, zero WaitGroup, unlocked mutex, no tokens.
InitOM ==
  /\ undoable = << >>
  /\ redoable = << >>
  /\ cancelations = << >>
  /\ wg = 0
  /\ readers = 0
  /\ pc = [t \in Tasks |-> "idle"]
  /\ kind = [t \in Tasks |-> "none"]
  /\ opOf = [t \in Tasks |-> 0]
  /\ snap = [t \in Tasks |-> << >>]
  /\ cancel = [t \in Tasks |-> ZeroCancelation]
  /\ out = [t \in Tasks |-> << >>]
  /\ obsCtx = [t \in Tasks |-> NilCtx]
  /\ cb = [t \in Tasks |-> << >>]
  /\ callerPc = [t \in Tasks |-> "idle"]
  /\ handle = [t \in Tasks |-> ZeroCancelation]
  /\ cancelCalls = [t \in Tasks |-> 0]
  /\ ctxCancelled = {}
  /\ parentCancelled = FALSE
  /\ ctl = [pc |-> "idle", op |-> "none", cancel |-> FALSE, sweep |-> << >>, before |-> {},
            ranged |-> << >>]
  /\ panicked = NoPanic
  /\ hist = << >>
  /\ peek = NoPeek

\* No NewCmdID or RegisterCmdIDs call has been made yet.
NoIDCall == [call |-> "none", ids |-> << >>, ret |-> 0, err |-> Nil]

\* The opStorage manager as NewOpManager builds it: the counters are the
\* zero value of int.
InitStore ==
  /\ opStorage = {}
  /\ InProgress = << >>
  /\ Done = << >>
  /\ Redoable = << >>
  /\ stLog = << >>
  /\ cmdIDCount = 0
  /\ usedCmdIDs = {}
  /\ idLog = NoIDCall
  /\ idCalls = 0

\* No constructor call has been observed yet.
NotCalled == [ctor |-> "none", res |-> Refused("none")]

InitCtor ==
  /\ ctArgs = << >>
  /\ ctRes = NotCalled

\* Every manager built by its constructor from the config arguments cfgs.
InitWith(cfgs) ==
  /\ InitOM
  /\ InitUM
  /\ InitStore
  /\ InitCtor
  /\ config = NewOpManager(cfgs).mgr.config
  /\ umConfig = New(cfgs).mgr.config
  /\ stConfig = Store_NewOpManager(cfgs).mgr.config

\* The managers built without a config argument.
Init == InitWith(<< >>)

\* The managers built with one config argument.
InitConfigured == \E cfg \in Configs : InitWith(<<cfg>>)

Alive == panicked = NoPanic

\* ------------------------------------------------------------ the caller
\* Calls are issued one after another by the calling thread.
MayCall(t) ==
  /\ Alive
  /\ pc[t] = "idle"
  /\ callerPc[t] = "idle"
  /\ \A u \in Tasks : u < t => callerPc[u] = "returned"

\* Execute / Undo / Redo up to the go statement: `var cancel Cancelation`
\* and the goroutine is spawned.
Call(t, k, o) ==
  /\ MayCall(t)
  /\ pc' = [pc EXCEPT ![t] = "spawned"]
  /\ kind' = [kind EXCEPT ![t] = k]
  /\ opOf' = [opOf EXCEPT ![t] = o]
  /\ callerPc' = [callerPc EXCEPT ![t] = "called"]
  /\ UNCHANGED <<umvars, stvars, ctvars, config, peek, hist, undoable, redoable, cancelations, wg, readers, snap, cancel, out,
                 obsCtx, cb, handle, cancelCalls, ctxCancelled, parentCancelled,
                 ctl, panicked>>

Execute(t, o) == Call(t, "Execute", o)

Undo(t, o) == Call(t, "Undo", o)

Redo(t, o) == Call(t, "Redo", o)

\* What the caller's unsynchronised read of the captured variable `cancel`
\* can yield: the zero value it was declared with (also when the goroutine
\* has already assigned it: nothing orders the write before the read) or the
\* value assigned.  A partly copied struct differs from these two only in
\* fields Cancel never reads once f is nil, and is not listed separately.
ReadCancel(c) == {ZeroCancelation, c}

\* `return cancel` in Execute / Undo / Redo.
Return(t) ==
  /\ Alive
  /\ callerPc[t] = "called"
  /\ kind[t] \in AsyncKinds
  /\ \E h \in ReadCancel(cancel[t]) : handle' = [handle EXCEPT ![t] = h]
  /\ callerPc' = [callerPc EXCEPT ![t] = "returned"]
  /\ UNCHANGED <<umvars, stvars, ctvars, config, peek, hist, undoable, redoable, cancelations, wg, readers, pc, kind, opOf, snap,
                 cancel, out, obsCtx, cb, cancelCalls, ctxCancelled,
                 parentCancelled, ctl, panicked>>

\* ExecuteSync launched like Execute: a goroutine, counted and registered.
ExecuteSync_viaGoroutine(t, o) == Call(t, "ExecuteSync", o)

\* ExecuteSync is entered: the action runs on the caller's thread.
ExecuteSync(t, o) ==
  /\ MayCall(t)
  /\ pc' = [pc EXCEPT ![t] = "run"]
  /\ kind' = [kind EXCEPT ![t] = "ExecuteSync"]
  /\ opOf' = [opOf EXCEPT ![t] = o]
  /\ callerPc' = [callerPc EXCEPT ![t] = "called"]
  /\ UNCHANGED <<umvars, stvars, ctvars, config, peek, hist, undoable, redoable, cancelations, wg, readers, snap, cancel, out,
                 obsCtx, cb, handle, cancelCalls, ctxCancelled, parentCancelled,
                 ctl, panicked>>

\* The caller cancels the context it passed to the manager.
CancelParent ==
  /\ Alive
  /\ ~parentCancelled
  /\ parentCancelled' = TRUE
  /\ UNCHANGED <<umvars, stvars, ctvars, config, peek, hist, undoable, redoable, cancelations, wg, readers, pc, kind, opOf, snap,
                 cancel, out, obsCtx, cb, callerPc, handle, cancelCalls,
                 ctxCancelled, ctl, panicked>>

\* ------------------------------------------------------------ the goroutine
\* mgr.wg.Add(1), the goroutine's first statement.
wgAdd(t) ==
  /\ Alive
  /\ pc[t] = "spawned"
  /\ wg' = wg + 1
  /\ pc' = [pc EXCEPT ![t] = "added"]
  /\ UNCHANGED <<umvars, stvars, ctvars, config, peek, hist, undoable, redoable, cancelations, readers, kind, opOf, snap, cancel,
                 out, obsCtx, cb, callerPc, handle, cancelCalls, ctxCancelled,
                 parentCancelled, ctl, panicked>>

\* withCancel: mgr.mutex.Lock() immediately followed by mgr.mutex.Unlock().
\* The write lock is granted only while nobody holds the read lock.
withCancelLock(t) ==
  /\ Alive
  /\ pc[t] = "added"
  /\ readers = 0
  /\ pc' = [pc EXCEPT ![t] = "unlocked"]
  /\ UNCHANGED <<umvars, stvars, ctvars, config, peek, hist, undoable, redoable, cancelations, wg, readers, kind, opOf, snap,
                 cancel, out, obsCtx, cb, callerPc, handle, cancelCalls,
                 ctxCancelled, parentCancelled, ctl, panicked>>

\* withCancel: n := len(mgr.cancelations) + 1, read with the mutex released.
withCancel(t) ==
  /\ Alive
  /\ pc[t] = "unlocked"
  /\ snap' = [snap EXCEPT ![t] = cancelations]
  /\ pc' = [pc EXCEPT ![t] = "derived"]
  /\ UNCHANGED <<umvars, stvars, ctvars, config, peek, hist, undoable, redoable, cancelations, wg, readers, kind, opOf, cancel,
                 out, obsCtx, cb, callerPc, handle, cancelCalls, ctxCancelled,
                 parentCancelled, ctl, panicked>>

\* addCancelation: mgr.cancelations = append(mgr.cancelations, c), again
\* without the mutex: the slice appended to is the current one or, when
\* another goroutine appended in between, the stale one this goroutine read
\* (the other append is then lost).  The token is then stored in `cancel`.
addCancelation(t) ==
  /\ Alive
  /\ pc[t] = "derived"
  /\ \E base \in {cancelations, snap[t]} :
       cancelations' = Append(base, NewCancelation(snap[t], t))
  /\ cancel' = [cancel EXCEPT ![t] = NewCancelation(snap[t], t)]
  /\ snap' = [snap EXCEPT ![t] = << >>]
  /\ pc' = [pc EXCEPT ![t] = "run"]
  /\ UNCHANGED <<umvars, stvars, ctvars, config, peek, hist, undoable, redoable, wg, readers, kind, opOf, out, obsCtx, cb,
                 callerPc, handle, cancelCalls, ctxCancelled, parentCancelled, ctl,
                 panicked>>

\* The context handed to the action: op.Execute(ctx), op.Undo(ctx),
\* op.Redo(ctx) all pass the function's parameter ctx, the caller's context.
ActionCtx(t) == ParentCtx

\* The action runs and returns (result, err).
RunAction(t) ==
  /\ Alive
  /\ pc[t] = "run"
  /\ \E o \in Outcomes(ActionCtx(t)) : out' = [out EXCEPT ![t] = o]
  /\ obsCtx' = [obsCtx EXCEPT ![t] = ActionCtx(t)]
  /\ pc' = [pc EXCEPT ![t] = "acted"]
  /\ UNCHANGED <<umvars, stvars, ctvars, config, peek, hist, undoable, redoable, cancelations, wg, readers, kind, opOf, snap,
                 cancel, cb, callerPc, handle, cancelCalls, ctxCancelled,
                 parentCancelled, ctl, panicked>>

\* if err == nil { mgr.hasBeenDone / hasBeenUndone / hasBeenRedone (op) },
\* each under mgr.mutex.Lock().  ExecuteSync then returns to its caller.
Record(t) ==
  /\ Alive
  /\ pc[t] = "acted"
  /\ out[t][2] = Nil => readers = 0
  /\ undoable' = LedgerAfter(kind[t], out[t][2], undoable, redoable, opOf[t])[1]
  /\ redoable' = LedgerAfter(kind[t], out[t][2], undoable, redoable, opOf[t])[2]
  /\ IF kind[t] = "ExecuteSync"
     THEN /\ pc' = [pc EXCEPT ![t] = "done"]
          /\ callerPc' = [callerPc EXCEPT ![t] = "returned"]
     ELSE /\ pc' = [pc EXCEPT ![t] = "recorded"]
          /\ UNCHANGED callerPc
  /\ hist' = HistAfter(hist, kind[t], out[t][2], opOf[t], undoable', redoable')
  /\ UNCHANGED <<umvars, stvars, ctvars, config, peek, cancelations, wg, readers, kind, opOf, snap, cancel, out, obsCtx, cb,
                 handle, cancelCalls, ctxCancelled, parentCancelled, ctl, panicked>>

\* final(result, err)
Final(t) ==
  /\ Alive
  /\ pc[t] = "recorded"
  /\ cb' = [cb EXCEPT ![t] = FinalCall(cb[t], out[t])]
  /\ pc' = [pc EXCEPT ![t] = "called"]
  /\ UNCHANGED <<umvars, stvars, ctvars, config, peek, hist, undoable, redoable, cancelations, wg, readers, kind, opOf, snap,
                 cancel, out, obsCtx, callerPc, handle, cancelCalls, ctxCancelled,
                 parentCancelled, ctl, panicked>>

\* defer mgr.removeCancelation(cancel), under mgr.mutex.Lock().
deferRemove(t) ==
  /\ Alive
  /\ pc[t] = "called"
  /\ readers = 0
  /\ cancelations' = removeCancelation(cancelations, cancel[t]).list
  /\ panicked' = IF removeCancelation(cancelations, cancel[t]).panic
                 THEN [why |-> "removeCancelation: index out of range", t |-> t,
                       completed |-> FALSE]
                 ELSE panicked
  /\ pc' = [pc EXCEPT ![t] = "removed"]
  /\ UNCHANGED <<umvars, stvars, ctvars, config, peek, hist, undoable, redoable, wg, readers, kind, opOf, snap, cancel, out,
                 obsCtx, cb, callerPc, handle, cancelCalls, ctxCancelled,
                 parentCancelled, ctl>>

\* defer mgr.wg.Done(): the goroutine ends.
wgDone(t) ==
  /\ Alive
  /\ pc[t] = "removed"
  /\ wg' = wg - 1
  /\ pc' = [pc EXCEPT ![t] = "done"]
  /\ UNCHANGED <<umvars, stvars, ctvars, config, peek, hist, undoable, redoable, cancelations, readers, kind, opOf, snap, cancel,
                 out, obsCtx, cb, callerPc, handle, cancelCalls, ctxCancelled,
                 parentCancelled, ctl, panicked>>

\* ------------------------------------------------------------ cancellation
\* Cancelation.Cancel on the handle a call returned: c.f(), then
\* c.mgr.removeCancelation(c) when c.mgr is set.  Calling the nil func of a
\* handle whose f was never assigned is a run-time panic.
Cancel(t) ==
  /\ Alive
  /\ callerPc[t] = "returned"
  /\ kind[t] \in AsyncKinds
  /\ cancelCalls[t] < MaxCancels
  /\ cancelCalls' = [cancelCalls EXCEPT ![t] = @ + 1]
  /\ IF handle[t].f = 0
     THEN /\ panicked' = [why |-> "Cancel: call of nil func", t |-> t,
                          completed |-> pc[t] = "done"]
          /\ UNCHANGED <<ctxCancelled, cancelations>>
     ELSE /\ ctxCancelled' = ctxCancelled \cup {handle[t].f}
          /\ IF handle[t].mgr = 0
             THEN UNCHANGED <<cancelations, panicked>>
             ELSE /\ readers = 0
                  /\ cancelations' = removeCancelation(cancelations, handle[t]).list
                  /\ panicked' = IF removeCancelation(cancelations, handle[t]).panic
                                 THEN [why |-> "removeCancelation: index out of range",
                                       t |-> t, completed |-> pc[t] = "done"]
                                 ELSE panicked
  /\ UNCHANGED <<umvars, stvars, ctvars, config, peek, hist, undoable, redoable, wg, readers, pc, kind, opOf, snap, cancel, out,
                 obsCtx, cb, callerPc, handle, parentCancelled, ctl>>

\* The calls whose Execute / Undo / Redo has returned to its caller.
Launched == {t \in Tasks : kind[t] \in AsyncKinds /\ callerPc[t] = "returned"}

\* CancelAll is entered: mgr.mutex.RLock(), and the range expression
\* mgr.cancelations is evaluated (once).
CancelAllEnter(op, before) ==
  /\ Alive
  /\ ctl.pc = "idle"
  /\ readers' = readers + 1
  /\ ctl' = [pc |-> "sweep", op |-> op, cancel |-> TRUE, sweep |-> cancelations,
             before |-> before, ranged |-> cancelations]
  /\ UNCHANGED <<umvars, stvars, ctvars, config, peek, hist, undoable, redoable, cancelations, wg, pc, kind, opOf, snap, cancel,
                 out, obsCtx, cb, callerPc, handle, cancelCalls, ctxCancelled,
                 parentCancelled, panicked>>

\* A thread calls CancelAll().
CancelAll == CancelAllEnter("CancelAll", {})

\* CancelAll: one iteration, c.Cancel() on the next registered token.  A
\* token with its mgr set would call removeCancelation, whose Lock() can
\* never be granted while this thread holds the read lock.
CancelAllStep ==
  /\ Alive
  /\ ctl.pc = "sweep"
  /\ ctl.sweep # << >>
  /\ Head(ctl.sweep).mgr = 0
  /\ ctl' = [ctl EXCEPT !.sweep = Tail(@)]
  /\ IF Head(ctl.sweep).f = 0
     THEN /\ panicked' = [why |-> "Cancel: call of nil func", t |-> 0,
                          completed |-> FALSE]
          /\ UNCHANGED ctxCancelled
     ELSE /\ ctxCancelled' = ctxCancelled \cup {Head(ctl.sweep).f}
          /\ UNCHANGED panicked
  /\ UNCHANGED <<umvars, stvars, ctvars, config, peek, hist, undoable, redoable, cancelations, wg, readers, pc, kind, opOf, snap,
                 cancel, out, obsCtx, cb, callerPc, handle, cancelCalls,
                 parentCancelled>>

\* CancelAll: the loop is over, defer mgr.mutex.RUnlock().  Inside Shutdown
\* the thread goes on to WaitAll.
CancelAllUnlock ==
  /\ Alive
  /\ ctl.pc = "sweep"
  /\ ctl.sweep = << >>
  /\ readers' = readers - 1
  /\ ctl' = IF ctl.op = "Shutdown" THEN [ctl EXCEPT !.pc = "wait", !.ranged = << >>]
            ELSE [ctl EXCEPT !.pc = "idle", !.op = "none", !.cancel = FALSE,
                             !.ranged = << >>]
  /\ UNCHANGED <<umvars, stvars, ctvars, config, peek, hist, undoable, redoable, cancelations, wg, pc, kind, opOf, snap, cancel,
                 out, obsCtx, cb, callerPc, handle, cancelCalls, ctxCancelled,
                 parentCancelled, panicked>>

\* A thread calls WaitAll(): mgr.wg.Wait() returns once the counter is zero.
WaitAll ==
  /\ Alive
  /\ ctl.pc = "idle"
  /\ wg = 0
  /\ UNCHANGED <<umvars, stvars, ctvars, config, peek, hist, undoable, redoable, cancelations, wg, readers, pc, kind, opOf, snap,
                 cancel, out, obsCtx, cb, callerPc, handle, cancelCalls,
                 ctxCancelled, parentCancelled, ctl, panicked>>

\* A thread calls Shutdown(c): if cancel { mgr.CancelAll() }, then
\* mgr.WaitAll().
Shutdown(c) ==
  IF c THEN CancelAllEnter("Shutdown", Launched)
  ELSE /\ Alive
       /\ ctl.pc = "idle"
       /\ ctl' = [pc |-> "wait", op |-> "Shutdown", cancel |-> FALSE, sweep |-> << >>,
                  before |-> Launched, ranged |-> << >>]
       /\ UNCHANGED <<umvars, stvars, ctvars, config, peek, hist, undoable, redoable, cancelations, wg, readers, pc, kind, opOf,
                      snap, cancel, out, obsCtx, cb, callerPc, handle, cancelCalls,
                      ctxCancelled, parentCancelled, panicked>>

\* Shutdown: mgr.WaitAll() returns, and so does Shutdown.
ShutdownReturn ==
  /\ Alive
  /\ ctl.pc = "wait"
  /\ wg = 0
  /\ ctl' = [ctl EXCEPT !.pc = "returned"]
  /\ UNCHANGED <<umvars, stvars, ctvars, config, peek, hist, undoable, redoable, cancelations, wg, readers, pc, kind, opOf, snap,
                 cancel, out, obsCtx, cb, callerPc, handle, cancelCalls,
                 ctxCancelled, parentCancelled, panicked>>

\* ------------------------------------------------------------ peeks
\* CanUndo with the test off by one.
CanUndo_offByOne == Len(undoable) > 1

CanUndo == Len(undoable) > 0

CanRedo == Len(redoable) > 0

UndoCmd == IF Len(undoable) = 0 THEN NoCmd ELSE CmdOf(undoable[Len(undoable)])

RedoCmd == IF Len(redoable) = 0 THEN NoCmd ELSE CmdOf(redoable[Len(redoable)])

\* ------------------------------------------------------------ serial use
\* No call is in flight and no finished call is still held by the caller.
Quiet == \A u \in Tasks : pc[u] = "idle" /\ callerPc[u] = "idle"

\* The call, if it succeeds, leaves at most MaxLedger operations recorded.
Fits(k, o) ==
  LET grows == \/ k \in {"Execute", "ExecuteSync"}
               \/ k = "Undo" /\ IndexOf(undoable, o) = 0
               \/ k = "Redo" /\ IndexOf(redoable, o) = 0
  IN  Len(undoable) + Len(redoable) + (IF grows THEN 1 ELSE 0) <= MaxLedger

\* A caller that waits for each call's callback before the next call.
SerialCall(t, k, o) == Quiet /\ Fits(k, o) /\ Call(t, k, o)

SerialExecuteSync(t, o) == Quiet /\ Fits("ExecuteSync", o) /\ ExecuteSync(t, o)

\* A peek made by the caller between two calls: the function reads the
\* lists and returns.
Peeked(f, b, c) ==
  /\ Alive
  /\ Quiet
  /\ peek' = [fn |-> f, bool |-> b, cmd |-> c]
  /\ UNCHANGED <<umvars, stvars, ctvars, config, hist, undoable, redoable, cancelations, wg,
                 readers, pc, kind, opOf, snap, cancel, out, obsCtx, cb, callerPc,
                 handle, cancelCalls, ctxCancelled, parentCancelled, ctl, panicked>>

Peek_CanUndo == Peeked("CanUndo", CanUndo, NoCmd)

Peek_CanRedo == Peeked("CanRedo", CanRedo, NoCmd)

Peek_UndoCmd == Peeked("UndoCmd", FALSE, UndoCmd)

Peek_RedoCmd == Peeked("RedoCmd", FALSE, RedoCmd)

\* The caller is done with a finished call: its handle, result and context
\* go out of scope.
Retire(t) ==
  /\ Alive
  /\ pc[t] = "done"
  /\ callerPc[t] = "returned"
  /\ pc' = [pc EXCEPT ![t] = "idle"]
  /\ callerPc' = [callerPc EXCEPT ![t] = "idle"]
  /\ kind' = [kind EXCEPT ![t] = "none"]
  /\ opOf' = [opOf EXCEPT ![t] = 0]
  /\ snap' = [snap EXCEPT ![t] = << >>]
  /\ cancel' = [cancel EXCEPT ![t] = ZeroCancelation]
  /\ out' = [out EXCEPT ![t] = << >>]
  /\ obsCtx' = [obsCtx EXCEPT ![t] = NilCtx]
  /\ cb' = [cb EXCEPT ![t] = << >>]
  /\ handle' = [handle EXCEPT ![t] = ZeroCancelation]
  /\ cancelCalls' = [cancelCalls EXCEPT ![t] = 0]
  /\ ctxCancelled' = ctxCancelled \ {t}
  /\ UNCHANGED <<umvars, stvars, ctvars, config, peek, hist, undoable, redoable, cancelations, wg,
                 readers, parentCancelled, ctl, panicked>>

\* ------------------------------------------------------------ opStorage
IDs == 1..NumIDs

\* Execute with the operation recorded before the limit is tested.
ExecuteResult_recordFirst(storage, inProgress, limit, id) ==
  [opStorage |-> storage \cup {id},
   InProgress |-> Append(inProgress, id),
   err |-> IF limit > 0 /\ Cardinality(storage) > limit
           THEN "ErrOutOfMemory" ELSE Nil]

\* Execute(op) of the opStorage manager, whole under mgr.mutex:
\*   if StorageLimit > 0 && len(mgr.opStorage) > StorageLimit
\*     { return ErrOutOfMemory }
\*   mgr.opStorage[op.ID()] = op
\*   mgr.InProgress = append(mgr.InProgress, op.ID())
ExecuteResult(storage, inProgress, limit, id) ==
  IF limit > 0 /\ Cardinality(storage) > limit
  THEN [opStorage |-> storage, InProgress |-> inProgress, err |-> "ErrOutOfMemory"]
  ELSE [opStorage |-> storage \cup {id},
        InProgress |-> Append(inProgress, id),
        err |-> Nil]

Store_Execute(id) ==
  LET res == ExecuteResult(opStorage, InProgress, stConfig.StorageLimit, id)
  IN  /\ Len(stLog) < MaxExec
      /\ opStorage' = res.opStorage
      /\ InProgress' = res.InProgress
      /\ stLog' = Append(stLog, [id |-> id, err |-> res.err])
      /\ UNCHANGED <<Done, Redoable, stConfig, cmdIDCount, usedCmdIDs, idLog, idCalls>>
      /\ UNCHANGED <<omvars, umvars, ctvars>>

\* The argument lists handed to RegisterCmdIDs.
CmdIDArgs == UNION {[1..n -> 0..MaxCmdID] : n \in 0..MaxRegister}

\* mgr.cmdIDCount++; return mgr.cmdIDCount
NewCmdID ==
  /\ idCalls < MaxIDCalls
  /\ cmdIDCount' = cmdIDCount + 1
  /\ usedCmdIDs' = usedCmdIDs \cup {cmdIDCount'}
  /\ idLog' = [call |-> "NewCmdID", ids |-> << >>, ret |-> cmdIDCount', err |-> Nil]
  /\ idCalls' = idCalls + 1
  /\ UNCHANGED <<opStorage, InProgress, Done, Redoable, stConfig, stLog>>
  /\ UNCHANGED <<omvars, umvars, ctvars>>

\* The loop of RegisterCmdIDs from argument i on, m being the largest
\* argument seen so far: the first argument not above the counter makes the
\* call return ErrAttemptReuseNumeric before the counter is assigned;
\* after the loop, mgr.cmdIDCount = m + 1.
RECURSIVE RegisterCmdIDsLoop(_, _, _, _)
RegisterCmdIDsLoop(count, ids, i, m) ==
  IF i > Len(ids) THEN [cmdIDCount |-> m + 1, err |-> Nil]
  ELSE IF ids[i] <= count THEN [cmdIDCount |-> count, err |-> "ErrAttemptReuseNumeric"]
  ELSE RegisterCmdIDsLoop(count, ids, i + 1, IF ids[i] > m THEN ids[i] ELSE m)

\* RegisterCmdIDs(cmdIDs...): `var m int` starts at zero.
RegisterCmdIDs(ids) ==
  LET res == RegisterCmdIDsLoop(cmdIDCount, ids, 1, 0)
  IN  /\ idCalls < MaxIDCalls
      /\ cmdIDCount' = res.cmdIDCount
      /\ usedCmdIDs' = IF res.err = Nil
                        THEN usedCmdIDs \cup {ids[j] : j \in 1..Len(ids)}
                        ELSE usedCmdIDs
      /\ idLog' = [call |-> "RegisterCmdIDs", ids |-> ids, ret |-> 0, err |-> res.err]
      /\ idCalls' = idCalls + 1
      /\ UNCHANGED <<opStorage, InProgress, Done, Redoable, stConfig, stLog>>
      /\ UNCHANGED <<omvars, umvars, ctvars>>

\* ------------------------------------------------------------ constructor calls
\* A constructor is called with the arguments cfgs and returns res.
Constructed(name, cfgs, res) ==
  /\ ctArgs' = cfgs
  /\ ctRes' = [ctor |-> name, res |-> res]
  /\ UNCHANGED <<omvars, umvars, stvars>>

Call_NewOpManager ==
  \E cfgs \in ConfigArgs : Constructed("commands.NewOpManager", cfgs, NewOpManager(cfgs))

Call_New ==
  \E cfgs \in ConfigArgs : Constructed("undo.New", cfgs, New(cfgs))

Call_Projects_NewOpManager ==
  \E cfgs \in ConfigArgs :
    Constructed("projects.NewOpManager", cfgs, Projects_NewOpManager(cfgs))

Call_Store_NewOpManager ==
  \E cfgs \in ConfigArgs :
    Constructed("commands.NewOpManager (opStorage)", cfgs, Store_NewOpManager(cfgs))

Call_Plain_NewOpManager ==
  \E cfgs \in ConfigArgs :
    Constructed("commands.NewOpManager (Undoable)", cfgs, Plain_NewOpManager(cfgs))

\* ------------------------------------------------------------ specification
\* The goroutine of an Execute / Undo / Redo call, or the inline part of
\* ExecuteSync.
Goroutine(t) ==
  \/ wgAdd(t)
  \/ withCancelLock(t)
  \/ withCancel(t)
  \/ addCancelation(t)
  \/ RunAction(t)
  \/ Record(t)
  \/ Final(t)
  \/ deferRemove(t)
  \/ wgDone(t)

NextOM ==
  \/ \E t \in Tasks, o \in Ops : Execute(t, o)
  \/ \E t \in Tasks, o \in Ops : Undo(t, o)
  \/ \E t \in Tasks, o \in Ops : Redo(t, o)
  \/ \E t \in Tasks, o \in Ops : ExecuteSync(t, o)
  \/ \E t \in Tasks : Return(t)
  \/ \E t \in Tasks : Goroutine(t)
  \/ \E t \in Tasks : Cancel(t)
  \/ CancelParent
  \/ CancelAll
  \/ CancelAllStep
  \/ CancelAllUnlock
  \/ WaitAll
  \/ \E c \in BOOLEAN : Shutdown(c)
  \/ ShutdownReturn

\* The UndoManager's calls.
NextUM ==
  \/ UM_Add
  \/ \E c \in Threads : popUndo(c)
  \/ \E c \in Threads : UM_UndoFn(c)
  \/ \E c \in Threads : UM_UndoPush(c)
  \/ \E c \in Threads : popRedo(c)
  \/ \E c \in Threads : UM_RedoFn(c)

Next == NextOM \/ NextUM

Spec == Init /\ [][Next]_vars

SpecUM == Init /\ [][NextUM]_vars

\* The UndoManager's contexts: WithCancel, the cancel funcs it returns, and
\* CancelAll, with Add calls in between.
NextUMCtx ==
  \/ \E c \in Threads : UM_WithCancel(c)
  \/ \E c \in Threads : UM_CtxCancel(c)
  \/ UM_CancelAll
  \/ UM_Add

SpecUMCtx == Init /\ [][NextUMCtx]_vars

\* The opStorage manager, built with a config argument.
NextStore == \E id \in IDs : Store_Execute(id)

SpecStore == InitConfigured /\ [][NextStore]_vars

\* The command-ID counter of the opStorage manager.
NextIDs ==
  \/ NewCmdID
  \/ \E ids \in CmdIDArgs : RegisterCmdIDs(ids)

SpecIDs == Init /\ [][NextIDs]_vars

\* Calls of the five constructors.
NextCtor ==
  \/ Call_NewOpManager
  \/ Call_New
  \/ Call_Projects_NewOpManager
  \/ Call_Store_NewOpManager
  \/ Call_Plain_NewOpManager

SpecCtor == Init /\ [][NextCtor]_vars

\* The UndoManager built with a config argument.
SpecUMConfigured == InitConfigured /\ [][NextUM]_vars

\* The calls and their goroutines alone: nobody calls Cancel, CancelAll,
\* WaitAll or Shutdown.  The caller may still cancel its own context.
NextLedger ==
  \/ \E t \in Tasks, o \in Ops : Execute(t, o)
  \/ \E t \in Tasks, o \in Ops : Undo(t, o)
  \/ \E t \in Tasks, o \in Ops : Redo(t, o)
  \/ \E t \in Tasks, o \in Ops : ExecuteSync(t, o)
  \/ \E t \in Tasks : Return(t)
  \/ \E t \in Tasks : Goroutine(t)
  \/ CancelParent

SpecLedger == Init /\ [][NextLedger]_vars

\* Calls with the handles they return being cancelled by the caller.
NextCancel ==
  \/ \E t \in Tasks, o \in Ops : Execute(t, o)
  \/ \E t \in Tasks, o \in Ops : Undo(t, o)
  \/ \E t \in Tasks, o \in Ops : Redo(t, o)
  \/ \E t \in Tasks : Return(t)
  \/ \E t \in Tasks : Goroutine(t)
  \/ \E t \in Tasks : Cancel(t)

SpecCancel == Init /\ [][NextCancel]_vars

\* Calls with another thread running CancelAll, WaitAll or Shutdown.
NextShutdown ==
  \/ \E t \in Tasks, o \in Ops : Execute(t, o)
  \/ \E t \in Tasks, o \in Ops : Undo(t, o)
  \/ \E t \in Tasks, o \in Ops : Redo(t, o)
  \/ \E t \in Tasks : Return(t)
  \/ \E t \in Tasks : Goroutine(t)
  \/ CancelAll
  \/ CancelAllStep
  \/ CancelAllUnlock
  \/ WaitAll
  \/ \E c \in BOOLEAN : Shutdown(c)
  \/ ShutdownReturn

SpecShutdown == Init /\ [][NextShutdown]_vars

\* ExecuteSync and Execute calls with another thread running CancelAll or
\* WaitAll.
NextSync ==
  \/ \E t \in Tasks, o \in Ops : ExecuteSync(t, o)
  \/ \E t \in Tasks, o \in Ops : Execute(t, o)
  \/ \E t \in Tasks : Return(t)
  \/ \E t \in Tasks : Goroutine(t)
  \/ CancelAll
  \/ CancelAllStep
  \/ CancelAllUnlock
  \/ WaitAll

SpecSync == Init /\ [][NextSync]_vars

\* One caller that issues Execute / Undo / Redo / ExecuteSync one at a time,
\* each after the previous call's callback has returned.
NextSerial ==
  \/ \E t \in Tasks, o \in Ops : SerialCall(t, "Execute", o)
  \/ \E t \in Tasks, o \in Ops : SerialCall(t, "Undo", o)
  \/ \E t \in Tasks, o \in Ops : SerialCall(t, "Redo", o)
  \/ \E t \in Tasks, o \in Ops : SerialExecuteSync(t, o)
  \/ \E t \in Tasks : Return(t)
  \/ \E t \in Tasks : Goroutine(t)
  \/ \E t \in Tasks : Retire(t)
  \/ Peek_CanUndo
  \/ Peek_CanRedo
  \/ Peek_UndoCmd
  \/ Peek_RedoCmd

SpecSerial == Init /\ [][NextSerial]_vars

\* ======================================================================
\* Claims
\* ======================================================================
NoDuplicates(s) == \A i, j \in 1..Len(s) : i # j => s[i] # s[j]

Elems(s) == {s[i] : i \in 1..Len(s)}

\* C1: in every reachable state no operation is in both undoable and
\* redoable, and no operation occurs twice in undoable or twice in redoable.
C1_LedgerExclusive ==
  /\ Elems(undoable) \cap Elems(redoable) = {}
  /\ NoDuplicates(undoable)
  /\ NoDuplicates(redoable)

\* C2: the Cancelation a call returns is, at the moment the call returns, a
\* token present in the registry with a non-nil cancel function and context.
C2_ReturnedHandleRegistered ==
  [][\A t \in Tasks :
       (callerPc[t] = "called" /\ callerPc'[t] = "returned" /\ kind[t] \in AsyncKinds)
         => /\ handle'[t].f # 0
            /\ handle'[t].ctx # NilCtx
            /\ \E i \in 1..Len(cancelations') : cancelations'[i] = handle'[t]]_vars

\* C3: the completion callback of a task has been invoked exactly once, with
\* the result and error the action returned, once the goroutine is past its
\* final(result, err) statement, and not at all before.
C3_CallbackExactlyOnce ==
  \A t \in Tasks :
    kind[t] \in AsyncKinds =>
      IF pc[t] \in {"called", "removed", "done"}
      THEN cb[t] = <<out[t]>>
      ELSE cb[t] = << >>

\* C3 witness: one task completed after a cancelled action, another after a
\* successful one, each with its callback fired.
C3_Witness ==
  \E t, u \in Tasks :
    /\ pc[t] = "done" /\ out[t][2] = "canceled" /\ cb[t] = <<out[t]>>
    /\ pc[u] = "done" /\ out[u][2] = Nil /\ cb[u] = <<out[u]>>

\* C4: when Shutdown(true) has returned, the callback of every task launched
\* before the Shutdown call has fired.
C4_ShutdownDrains ==
  (ctl.pc = "returned" /\ ctl.op = "Shutdown" /\ ctl.cancel)
    => \A t \in ctl.before : cb[t] # << >>

\* C5: the action runs with the context of the task's registered token, so
\* a cancelled token means a cancelled context for the running action.
C5_ActionObservesToken ==
  \A t \in Tasks :
    /\ (kind[t] \in AsyncKinds /\ obsCtx[t] # NilCtx) => obsCtx[t] = cancel[t].ctx
    /\ (pc[t] = "run" /\ kind[t] \in AsyncKinds /\ cancel[t].f \in ctxCancelled)
         => IsCancelled(ActionCtx(t))

\* C6: no step of a call whose action has returned an error changes
\* undoable or redoable.
C6_FailureLeavesLedger ==
  [][\A t \in Tasks :
       (pc'[t] # pc[t] /\ out'[t] # << >> /\ out'[t][2] # Nil)
         => (undoable' = undoable /\ redoable' = redoable)]_vars

\* C6 witness: an Undo whose action failed has completed, for an operation
\* that is (still) in undoable.
C6_Witness ==
  \E t \in Tasks :
    /\ pc[t] = "done" /\ kind[t] = "Undo" /\ out[t][2] # Nil
    /\ opOf[t] \in Elems(undoable)

\* C7: when the function run by the UndoManager's Undo or Redo returns an
\* error, both stacks are, as the call returns, what they were when it began
\* (for a call no other call overlapped with).
C7_FailureLeavesStacks ==
  [][\A c \in Threads :
       (umPc[c] # "idle" /\ umPc'[c] = "idle" /\ umRet'[c] = "failed" /\ umAlone[c])
         => <<undoStack', redoStack'>> = umBefore[c]]_vars

\* A step that is a Cancel() call on the handle returned for task t.
CancelStep(t) == cancelCalls'[t] # cancelCalls[t]

\* C8: Cancel on the handle of a completed task is a no-op: no panic, the
\* WaitGroup counter and the registry unchanged, no other context cancelled.
C8_CancelAfterCompletionNoOp ==
  [][\A t \in Tasks :
       (CancelStep(t) /\ pc[t] = "done")
         => /\ panicked' = NoPanic
            /\ wg' = wg
            /\ cancelations' = cancelations
            /\ ctxCancelled' \ {t} = ctxCancelled \ {t}]_vars

\* C9: after Cancel on the handle of an in-flight task, the task's token has
\* its context cancelled and is no longer in the registry.
C9_CancelDeregisters ==
  [][\A t \in Tasks :
       (CancelStep(t) /\ pc[t] = "run")
         => /\ IsCancelled(cancel[t].ctx)'
            /\ \A i \in 1..Len(cancelations') : cancelations'[i] # cancel[t]]_vars

\* C10: no two tokens in the registry have the same sequence id.
C10_UniqueIds ==
  \A i, j \in 1..Len(cancelations) :
    i # j => cancelations[i].id # cancelations[j].id

\* A remembered update that was a successful Execute or ExecuteSync.
IsExec(e) == e.k \in {"Execute", "ExecuteSync"}

\* The last successful updates were Execute(opA), Execute(opB), in that
\* order.
AfterAB ==
  /\ Len(hist) >= 2
  /\ IsExec(hist[Len(hist) - 1])
  /\ IsExec(hist[Len(hist)])

\* ... followed by one successful Undo of opB.
AfterABUndo ==
  /\ Len(hist) = 3
  /\ IsExec(hist[1])
  /\ IsExec(hist[2])
  /\ hist[3].k = "Undo"
  /\ hist[3].op = hist[2].op

\* C11: after opA and then opB were executed successfully, UndoCmd returns
\* opB's command; after one successful Undo of opB, UndoCmd returns opA's
\* command and RedoCmd returns opB's command.
C11_LIFO ==
  /\ AfterAB => UndoCmd = CmdOf(hist[Len(hist)].op)
  /\ AfterABUndo => UndoCmd = CmdOf(hist[1].op) /\ RedoCmd = CmdOf(hist[2].op)

\* C11 holds when opB was not in undoable before opA and opB were executed.
C11_WhenNotRecordedBefore ==
  /\ AfterAB => UndoCmd = CmdOf(hist[Len(hist)].op)
  /\ (AfterABUndo /\ IndexOf(Pop(Pop(hist[2].u)), hist[2].op) = 0)
       => UndoCmd = CmdOf(hist[1].op) /\ RedoCmd = CmdOf(hist[2].op)

\* The last three successful updates were Execute(op), Undo(op), Redo(op).
RoundTrip ==
  /\ Len(hist) = 3
  /\ IsExec(hist[1])
  /\ hist[2].k = "Undo"
  /\ hist[3].k = "Redo"
  /\ hist[2].op = hist[1].op
  /\ hist[3].op = hist[1].op

\* C12: after a successful Execute(op), Undo(op), Redo(op) in sequence,
\* whatever the lists held before, UndoCmd returns op's command and undoable
\* and redoable equal their values right after the Execute.
C12_RoundTrip ==
  RoundTrip => /\ UndoCmd = CmdOf(hist[1].op)
               /\ undoable = hist[1].u
               /\ redoable = hist[1].r

\* The part of C12 that the code keeps: UndoCmd after the round trip.
C12_UndoCmdOnly == RoundTrip => UndoCmd = CmdOf(hist[1].op)

\* The round trip restores both lists when op was not recorded before.
C12_RestoresWhenNew ==
  (RoundTrip /\ IndexOf(Pop(hist[1].u), hist[1].op) = 0 /\ IndexOf(hist[1].r, hist[1].op) = 0)
    => undoable = hist[1].u /\ redoable = hist[1].r

\* C19: on a manager with nothing recorded CanUndo and CanRedo are false and
\* UndoCmd and RedoCmd are nil; in every state CanUndo (CanRedo) is true
\* exactly when undoable (redoable) is non-empty; a call of CanUndo,
\* CanRedo, UndoCmd or RedoCmd returns the value for the lists as they are
\* and leaves both lists unchanged.
C19_PeeksState ==
  /\ CanUndo <=> undoable # << >>
  /\ CanRedo <=> redoable # << >>
  /\ undoable = << >> => ~CanUndo /\ UndoCmd = NoCmd
  /\ redoable = << >> => ~CanRedo /\ RedoCmd = NoCmd

C19_Peeks ==
  [][/\ C19_PeeksState
     /\ peek' # peek =>
          /\ undoable' = undoable
          /\ redoable' = redoable
          /\ peek'.fn = "CanUndo" => (peek'.bool <=> undoable # << >>)
          /\ peek'.fn = "CanRedo" => (peek'.bool <=> redoable # << >>)
          /\ (peek'.fn = "UndoCmd" /\ undoable = << >>) => peek'.cmd = NoCmd
          /\ (peek'.fn = "RedoCmd" /\ redoable = << >>) => peek'.cmd = NoCmd]_vars

C19_Witness ==
  /\ peek.fn = "CanUndo"
  /\ peek.bool
  /\ undoable # << >>
  /\ redoable # << >>

\* Thread c's Undo returns nil in this step, no other call having overlapped.
UndoReturnsNil(c) == umPc[c] = "pushRedo" /\ umPc'[c] = "idle" /\ umAlone[c]

\* Thread c's Redo returns nil in this step, no other call having overlapped.
RedoReturnsNil(c) ==
  umPc[c] = "redoFn" /\ umPc'[c] = "idle" /\ umRet'[c] = Nil /\ umAlone[c]

\* The first half of C13: a successful Undo moves the top entry of the undo
\* stack to the top of the redo stack.
C13_UndoMovesTop ==
  [][\A c \in Threads :
       UndoReturnsNil(c)
         => /\ undoStack' = Pop(umBefore[c][1])
            /\ Pop(redoStack') = umBefore[c][2]
            /\ Top(redoStack').name = Top(umBefore[c][1]).name]_vars

\* C13: a successful Undo moves the top entry of the undo stack to the top
\* of the redo stack, and a following successful Redo returns that entry to
\* the top of the undo stack: afterwards CanUndo is true and UndoName is the
\* name of the redone operation.
C13_UndoThenRedo ==
  [][\A c \in Threads :
       /\ UndoReturnsNil(c)
            => /\ undoStack' = Pop(umBefore[c][1])
               /\ Pop(redoStack') = umBefore[c][2]
               /\ Top(redoStack').name = Top(umBefore[c][1]).name
       /\ RedoReturnsNil(c)
            => /\ redoStack' = Pop(umBefore[c][2])
               /\ UM_CanUndo'
               /\ UM_UndoName' = Top(umBefore[c][2]).name]_vars

\* C16: a manager built with StorageLimit = N > 0 never retains more than
\* N operations: undo stack plus redo stack for the UndoManager, undoable
\* plus redoable for the cancellable OpManager.
C16_StorageLimitBounds ==
  /\ umConfig.StorageLimit > 0
       => Len(undoStack) + Len(redoStack) <= umConfig.StorageLimit
  /\ config.StorageLimit > 0
       => Len(undoable) + Len(redoable) <= config.StorageLimit

\* Thread c calls Undo (Redo) in this step.
CallsUndo(c) ==
  /\ umPc[c] = "idle"
  /\ umCall'[c] = "Undo"
  /\ <<umPc[c], umRet[c], umBefore[c], umCall[c]>>' # <<umPc[c], umRet[c], umBefore[c], umCall[c]>>

CallsRedo(c) ==
  /\ umPc[c] = "idle"
  /\ umCall'[c] = "Redo"
  /\ <<umPc[c], umRet[c], umBefore[c], umCall[c]>>' # <<umPc[c], umRet[c], umBefore[c], umCall[c]>>

\* C18: Undo on an empty undo stack returns ErrCantUndo and Redo on an empty
\* redo stack returns ErrCantRedo; the call returns at once (no function is
\* invoked) and both stacks are unchanged.
C18_EmptyStackErrors ==
  [][\A c \in Threads :
       /\ (CallsUndo(c) /\ undoStack = << >>)
            => /\ umRet'[c] = "ErrCantUndo"
               /\ umPc'[c] = "idle"
               /\ UNCHANGED <<undoStack, redoStack>>
       /\ (CallsRedo(c) /\ redoStack = << >>)
            => /\ umRet'[c] = "ErrCantRedo"
               /\ umPc'[c] = "idle"
               /\ UNCHANGED <<undoStack, redoStack>>]_vars

C18_Witness ==
  \E c, d \in Threads :
    /\ umCall[c] = "Undo"
    /\ umRet[c] = "ErrCantUndo"
    /\ umCall[d] = "Redo"
    /\ umRet[d] = "ErrCantRedo"
    /\ adds > 0

\* The Execute calls made so far were all given different operations.
DistinctAttempts == \A i, j \in 1..Len(stLog) : i # j => stLog[i].id # stLog[j].id

\* C14: with StorageLimit = N > 0 the first N Execute calls of distinct
\* operations succeed and the (N+1)-th returns ErrOutOfMemory; with
\* UnlimitedStorage no call returns ErrOutOfMemory.
C14_StorageLimit ==
  /\ (stConfig.StorageLimit > 0 /\ DistinctAttempts)
       => \A i \in 1..Len(stLog) :
            /\ i <= stConfig.StorageLimit => stLog[i].err = Nil
            /\ i = stConfig.StorageLimit + 1 => stLog[i].err = "ErrOutOfMemory"
  /\ stConfig.StorageLimit = UnlimitedStorage
       => \A i \in 1..Len(stLog) : stLog[i].err # "ErrOutOfMemory"

\* What the code does instead: call N+1 still succeeds, call N+2 fails.
C14_OneMore ==
  /\ (stConfig.StorageLimit > 0 /\ DistinctAttempts)
       => \A i \in 1..Len(stLog) :
            /\ i <= stConfig.StorageLimit + 1 => stLog[i].err = Nil
            /\ i > stConfig.StorageLimit + 1 => stLog[i].err = "ErrOutOfMemory"
  /\ stConfig.StorageLimit = UnlimitedStorage
       => \A i \in 1..Len(stLog) : stLog[i].err # "ErrOutOfMemory"

\* C15: an Execute that returns ErrOutOfMemory leaves opStorage,
\* InProgress, Done and Redoable unchanged.
C15_RejectedExecuteNoEffect ==
  [][(Len(stLog') = Len(stLog) + 1 /\ stLog'[Len(stLog')].err = "ErrOutOfMemory")
       => UNCHANGED <<opStorage, InProgress, Done, Redoable>>]_vars

C15_Witness ==
  /\ Len(stLog) > 0
  /\ stLog[Len(stLog)].err = "ErrOutOfMemory"
  /\ Cardinality(opStorage) = stConfig.StorageLimit + 1
  /\ Len(InProgress) = Len(stLog) - 1

\* What C17 asks of one constructor call.
ConstructorContract ==
  /\ Len(ctArgs) = 0 => ctRes.res = Built(Defaults)
  /\ Len(ctArgs) = 1 => ctRes.res = Built(ctArgs[1])
  /\ Len(ctArgs) > 1 => /\ ctRes.res.mgr = NoManager
                         /\ ctRes.res.err # Nil
                         /\ ctRes.res.panic = "none"

\* C17: every constructor returns a manager and no error for zero config
\* arguments (with Defaults) and for one (with that config), and an error
\* and no manager for more than one; it never panics for zero or one.
C17_Constructors == ctRes.ctor # "none" => ConstructorContract

\* The constructors other than package projects' keep the contract.
C17_OtherConstructors ==
  ctRes.ctor \notin {"none", "projects.NewOpManager"} => ConstructorContract

\* Task t was started by Execute / Undo / Redo and its goroutine has ended.
Finished(t) == kind[t] \in AsyncKinds /\ pc[t] = "done"

\* The goroutine of task t is between mgr.wg.Add(1) and mgr.wg.Done().
Counted(t) ==
  /\ kind[t] \in AsyncKinds
  /\ pc[t] \in {"added", "unlocked", "derived", "run", "acted", "recorded", "called", "removed"}

\* C20: when a task has finished its token is no longer in the registry and
\* the WaitGroup counter has been decremented once for it; once every
\* launched task has finished the registry is empty and the counter is zero.
C20_FinishedTaskCleanedUp ==
  /\ \A t \in Tasks :
       Finished(t) => \A i \in 1..Len(cancelations) : cancelations[i] # cancel[t]
  /\ wg = Cardinality({t \in Tasks : Counted(t)})
  /\ (\A t \in Tasks : pc[t] \in {"idle", "done"}) => cancelations = << >> /\ wg = 0

\* The counter half of C20 alone.
C20_CounterOnly ==
  /\ wg = Cardinality({t \in Tasks : Counted(t)})
  /\ (\A t \in Tasks : pc[t] \in {"idle", "done"}) => wg = 0

\* Task t has registered its token and has not yet reached its deferred
\* removeCancelation.
InFlightRegistered(t) ==
  /\ kind[t] \in AsyncKinds
  /\ pc[t] \in {"run", "acted", "recorded", "called"}

\* The token of task t is in the registry.
InRegistry(t) == \E i \in 1..Len(cancelations) : cancelations[i] = cancel[t]

\* removeCancelation has raised a run-time panic.
RemoveFaulted == panicked.why = "removeCancelation: index out of range"

\* C21: a token stays in the registry from the launch of its task until
\* that task completes or that token is cancelled (the completion of another
\* task never removes it), and removeCancelation never faults.
C21_TokenLifetime ==
  /\ \A t \in Tasks : (InFlightRegistered(t) /\ Alive) => InRegistry(t)
  /\ ~RemoveFaulted

\* The two halves of C21.
C21_TokenStays == \A t \in Tasks : (InFlightRegistered(t) /\ Alive) => InRegistry(t)

C21_NoFault == ~RemoveFaulted

\* The cancel functions of the tokens CancelAll's range expression yielded.
RangedFns == {ctl.ranged[i].f : i \in 1..Len(ctl.ranged)}

\* C22: CancelAll cancels exactly the tokens registered when it evaluated
\* its range expression; a token registered while it sweeps is not
\* cancelled by the sweep, and the registry is neither appended to nor
\* shrunk while CancelAll iterates over it.
C22_CancelAllSnapshot ==
  [][ctl.pc = "sweep"
       => /\ cancelations' = cancelations
          /\ ctxCancelled' \ ctxCancelled \subseteq RangedFns
          /\ ctl'.pc # "sweep" => RangedFns \subseteq ctxCancelled]_vars

\* C22 without its last part: which tokens the sweep cancels.
C22_SweepCancelsRanged ==
  [][ctl.pc = "sweep"
       => /\ ctxCancelled' \ ctxCancelled \subseteq RangedFns
          /\ ctl'.pc # "sweep" => RangedFns \subseteq ctxCancelled]_vars

\* A finishing task cannot shrink the registry during the sweep.
C22_NoShrinkWhileSweeping ==
  [][ctl.pc = "sweep" => Len(cancelations') >= Len(cancelations)]_vars

\* C23: every write of undoable, redoable or the registry is made holding
\* the mutex in write mode (so never while another thread holds it in read
\* mode), and what a goroutine read from the registry is read under the
\* mutex that covers its use: the registry is still what withCancel read
\* when addCancelation appends to it.
C23_MutexDiscipline ==
  [][/\ <<undoable, redoable, cancelations>>' # <<undoable, redoable, cancelations>>
          => readers = 0
     /\ \A t \in Tasks :
          (pc[t] = "derived" /\ pc'[t] = "run") => snap[t] = cancelations]_vars

\* The ledger half of C23: undoable and redoable change only while nobody
\* holds the mutex in read mode.
C23_LedgerWritesLocked ==
  [][<<undoable, redoable>>' # <<undoable, redoable>> => readers = 0]_vars

\* A step of the ExecuteSync call running as task t.
SyncStep(t) == kind'[t] = "ExecuteSync" /\ pc'[t] # pc[t]

\* C24: every step of an ExecuteSync call leaves the registry and the
\* outstanding-work counter unchanged; the call returns to its caller in
\* the very step that settles the ledger, which appends the op to undoable
\* when the action succeeded and changes nothing when it failed; no token
\* of the call is ever registered, swept by CancelAll or cancelled.
C24_ExecuteSyncFrame ==
  [][\A t \in Tasks : SyncStep(t) =>
       /\ cancelations' = cancelations
       /\ wg' = wg
       /\ ctxCancelled' = ctxCancelled
       /\ callerPc'[t] = "returned" <=> pc'[t] = "done"
       /\ pc'[t] = "done" =>
            /\ redoable' = redoable
            /\ undoable' = IF out[t][2] = Nil THEN Append(undoable, opOf[t])
                                             ELSE undoable
       /\ pc'[t] # "done" => <<undoable, redoable>>' = <<undoable, redoable>>
       /\ \A i \in 1..Len(cancelations') : cancelations'[i].f # t
       /\ t \notin RangedFns]_vars

\* An ExecuteSync call has succeeded and returned with its op on undoable
\* while a goroutine of an Execute call is still outstanding.
C24_Witness ==
  \E t, u \in Tasks :
    /\ kind[t] = "ExecuteSync" /\ pc[t] = "done" /\ callerPc[t] = "returned"
    /\ out[t][2] = Nil
    /\ Len(undoable) > 0 /\ undoable[Len(undoable)] = opOf[t]
    /\ kind[u] = "Execute" /\ wg > 0 /\ Len(cancelations) > 0

\* A NewCmdID or RegisterCmdIDs call is made in this step.
IDCallStep == idCalls' = idCalls + 1

\* C25: NewCmdID never returns an ID that an earlier NewCmdID returned or
\* an earlier RegisterCmdIDs accepted, the counter never decreases, and a
\* RegisterCmdIDs call that returns ErrAttemptReuseNumeric leaves the
\* counter unchanged.
C25_CmdIDsFresh ==
  [][IDCallStep =>
       /\ idLog'.call = "NewCmdID" => idLog'.ret \notin usedCmdIDs
       /\ cmdIDCount' >= cmdIDCount
       /\ idLog'.err = "ErrAttemptReuseNumeric" => cmdIDCount' = cmdIDCount]_vars

\* The last part of C25 alone: a rejected RegisterCmdIDs changes neither
\* the counter nor the set of IDs in use.
C25_RejectedRegisterNoEffect ==
  [][(IDCallStep /\ idLog'.err = "ErrAttemptReuseNumeric")
       => UNCHANGED <<cmdIDCount, usedCmdIDs>>]_vars

\* C25 for every call but RegisterCmdIDs without arguments: the counter
\* grows and stays above every ID in use.
C25_FreshUnlessEmptyRegister ==
  [][(IDCallStep /\ ~(idLog'.call = "RegisterCmdIDs" /\ idLog'.ids = << >>))
       => /\ cmdIDCount' >= cmdIDCount
          /\ (\A n \in usedCmdIDs : n <= cmdIDCount)
               => /\ \A n \in usedCmdIDs' : n <= cmdIDCount'
                  /\ idLog'.call = "NewCmdID" => idLog'.ret \notin usedCmdIDs]_vars

\* C26: a context obtained from WithCancel after the last CancelAll call
\* returned, and whose own cancel func has not been called, is live.
C26_LiveAfterCancelAll ==
  \A c \in Threads :
    (umCtx[c].held /\ umCtx[c].after = cancelAlls /\ ~umCtx[c].cancelled)
      => ~umCtx[c].done

\* The other direction of C26: CancelAll cancels every context that was
\* obtained before it was called.
C26_CancelAllCancelsPending ==
  \A c \in Threads : (umCtx[c].held /\ umCtx[c].after < cancelAlls) => umCtx[c].done

\* C26 before the first CancelAll: a context whose cancel func has not
\* been called is live.
C26_LiveBeforeCancelAll ==
  \A c \in Threads :
    (cancelAlls = 0 /\ umCtx[c].held /\ ~umCtx[c].cancelled) => ~umCtx[c].done

\* The place of the entry named n in the order of pops from the undo stack.
PopIndex(n) == CHOOSE i \in 1..Len(popLog) : popLog[i] = n

\* The redo stack lists its entries in the order they were popped from the
\* undo stack: the entry popped last is on top.
RedoInPopOrder(redo) ==
  \A i, j \in 1..Len(redo) :
    i < j => PopIndex(redo[i].name) < PopIndex(redo[j].name)

\* Thread c returns from a successful Undo in this step.
UndoPushStep(c) == umPc[c] = "pushRedo" /\ umPc'[c] = "idle"

\* C27: whenever Undo calls have succeeded, overlapping or not, the
\* entries they left on the redo stack are in the order in which they were
\* popped from the undo stack, the entry popped last on top.
C27_RedoInPopOrder == RedoInPopOrder(redoStack)

\* C27 for an Undo call that no other call overlapped: its entry goes on
\* top of a redo stack that stays in pop order.
C27_SerialUndoKeepsOrder ==
  [][\A c \in Threads :
       (UndoPushStep(c) /\ umAlone[c] /\ RedoInPopOrder(redoStack))
         => RedoInPopOrder(redoStack')]_vars

====
